---- MODULE Spec2Model ----
(***************************************************************************)
(* A model of conrod's events::input_state: the InputState value (mouse    *)
(* button map, mouse position, modifier keys, the two capture slots), its  *)
(* update transition over UiEvents, its relative_to projection, and the    *)
(* ButtonMap operations new / set / get / take / pressed_button.           *)
(*                                                                         *)
(* Option<T> is a sequence of length at most one: None is <<>>, Some(v) is *)
(* <<v>>.  A Point is a pair <<x, y>>; coordinates are bounded integers    *)
(* (on which f64 arithmetic is exact).                                     *)
(***************************************************************************)
EXTENDS Integers, Sequences, FiniteSets

\* ------------------------------------------------------------- bounds

\* Coordinates carried by events and origins range over 0..MaxCoord.
MaxCoord == 1

\* Widget indices carried by capture events range over 1..MaxWidget.
MaxWidget == 3

\* ---------------------------------------------------------- data model

NUM_MOUSE_BUTTONS == 9

None == <<>>
Some(v) == <<v>>

Unit == "()"

Coord == 0 .. MaxCoord
Points == Coord \X Coord
Widgets == 1 .. MaxWidget

\* input::MouseButton in declaration order; a button's u32 identity is its
\* place in this order, counted from 0 (Unknown = 0, Left = 1, Right = 2, ...).
MouseButtonOrder ==
    << "Unknown", "Left", "Right", "Middle", "X1", "X2",
       "Button6", "Button7", "Button8" >>

MouseButton == { MouseButtonOrder[i] : i \in 1 .. Len(MouseButtonOrder) }

\* MouseButton::from(idx as u32): identities past the known ones are Unknown.
idx_to_button(idx) ==
    IF idx + 1 \in 1 .. Len(MouseButtonOrder)
    THEN MouseButtonOrder[idx + 1]
    ELSE "Unknown"

\* u32::from(button) as usize
button_idx(button) ==
    CHOOSE i \in 0 .. Len(MouseButtonOrder) - 1 : MouseButtonOrder[i + 1] = button

\* input::keyboard modifier flags; a ModifierKey value is a set of them.
CTRL == "CTRL"
SHIFT == "SHIFT"
ALT == "ALT"
GUI == "GUI"
NO_MODIFIER == {}
ModifierBits == { CTRL, SHIFT, ALT, GUI }

ModifierKeys ==
    { "LCtrl", "RCtrl", "LShift", "RShift", "LAlt", "RAlt", "LGui", "RGui" }

\* The keys the model's keyboard events carry: the eight modifier keys and
\* one key that is no modifier.
Key == ModifierKeys \cup { "A" }

\* get_modifier with the right-hand variants left out of the lookup.
get_modifier_left_only(key) ==
    CASE key = "LCtrl" -> Some(CTRL)
      [] key = "LShift" -> Some(SHIFT)
      [] key = "LAlt" -> Some(ALT)
      [] key = "LGui" -> Some(GUI)
      [] OTHER -> None

get_modifier(key) ==
    CASE key \in { "LCtrl", "RCtrl" } -> Some(CTRL)
      [] key \in { "LShift", "RShift" } -> Some(SHIFT)
      [] key \in { "LAlt", "RAlt" } -> Some(ALT)
      [] key \in { "LGui", "RGui" } -> Some(GUI)
      [] OTHER -> None

\* vecmath::vec2_sub
vec2_sub(a, b) == << a[1] - b[1], a[2] - b[2] >>

\* ------------------------------------------------------------ ButtonMap

\* new with every slot filled with the origin instead of None.
ButtonMap_new_origin == [ idx \in 0 .. NUM_MOUSE_BUTTONS - 1 |-> Some(<< 0, 0 >>) ]

ButtonMap_new == [ idx \in 0 .. NUM_MOUSE_BUTTONS - 1 |-> None ]

\* set that keeps the position of a button that is already down.
set_keep_first(map, button, point) ==
    IF point # None /\ map[button_idx(button)] # None
    THEN map
    ELSE [ map EXCEPT ![button_idx(button)] = point ]

set(map, button, point) == [ map EXCEPT ![button_idx(button)] = point ]

get(map, button) == map[button_idx(button)]

\* take that reads the slot and leaves it as it is.
take_without_reset(map, button) == << map, map[button_idx(button)] >>

\* Option::take on the button's slot: the pair <<map afterwards, value returned>>.
take(map, button) ==
    << [ map EXCEPT ![button_idx(button)] = None ], map[button_idx(button)] >>

\* The iterator chain of pressed_button from slot idx on: the first slot that
\* is_some(), mapped to (idx_to_button(idx), state.unwrap()).
RECURSIVE first_pressed_from(_, _)
first_pressed_from(map, idx) ==
    IF idx >= NUM_MOUSE_BUTTONS THEN None
    ELSE IF map[idx] # None THEN Some(<< idx_to_button(idx), map[idx][1] >>)
    ELSE first_pressed_from(map, idx + 1)

\* The same chain walked from the highest slot down.
RECURSIVE last_pressed_from(_, _)
last_pressed_from(map, idx) ==
    IF idx < 0 THEN None
    ELSE IF map[idx] # None THEN Some(<< idx_to_button(idx), map[idx][1] >>)
    ELSE last_pressed_from(map, idx - 1)

\* pressed_button that answers with the highest pressed button.
pressed_button_highest(map) == last_pressed_from(map, NUM_MOUSE_BUTTONS - 1)

pressed_button(map) == first_pressed_from(map, 0)

\* ----------------------------------------------------------- InputState

InputState_new ==
    [ mouse_buttons |-> ButtonMap_new,
      mouse_position |-> << 0, 0 >>,
      widget_capturing_keyboard |-> None,
      widget_capturing_mouse |-> None,
      modifiers |-> NO_MODIFIER ]

\* UiEvent values: the variant path and what the variant carries.
Event(variant, arg) == [ variant |-> variant, arg |-> arg ]

MouseButtonVariants == { "Raw.Press.Mouse", "Raw.Release.Mouse" }
KeyboardVariants == { "Raw.Press.Keyboard", "Raw.Release.Keyboard" }
CaptureVariants ==
    { "WidgetCapturesKeyboard", "WidgetUncapturesKeyboard",
      "WidgetCapturesMouse", "WidgetUncapturesMouse" }
\* Motions of Input::Move; update matches MouseRelative alone.
Motions == { "MouseRelative", "MouseCursor", "MouseScroll" }
\* Event kinds update has no arm for.
OtherVariants == { "Raw.Resize", "Raw.Text", "Raw.Focus" }

\* The match of update over the event.
match_event(s, e) ==
    CASE e.variant = "Raw.Press.Mouse" ->
           [ s EXCEPT !.mouse_buttons =
                 set(s.mouse_buttons, e.arg, Some(s.mouse_position)) ]
      [] e.variant = "Raw.Release.Mouse" ->
           [ s EXCEPT !.mouse_buttons = set(s.mouse_buttons, e.arg, None) ]
      [] e.variant = "Raw.Move.MouseRelative" ->
           [ s EXCEPT !.mouse_position = << e.arg[1], e.arg[2] >> ]
      [] e.variant = "Raw.Press.Keyboard" ->
           IF get_modifier(e.arg) # None
           THEN [ s EXCEPT !.modifiers = s.modifiers \cup { get_modifier(e.arg)[1] } ]
           ELSE s
      [] e.variant = "Raw.Release.Keyboard" ->
           IF get_modifier(e.arg) # None
           THEN [ s EXCEPT !.modifiers = s.modifiers \ { get_modifier(e.arg)[1] } ]
           ELSE s
      [] e.variant = "WidgetCapturesKeyboard" ->
           [ s EXCEPT !.widget_capturing_keyboard = Some(e.arg) ]
      [] e.variant = "WidgetUncapturesKeyboard" ->
           [ s EXCEPT !.widget_capturing_keyboard = None ]
      [] e.variant = "WidgetCapturesMouse" ->
           [ s EXCEPT !.widget_capturing_mouse = Some(e.arg) ]
      [] e.variant = "WidgetUncapturesMouse" ->
           [ s EXCEPT !.widget_capturing_mouse = None ]
      [] OTHER -> s

\* update in which a mouse move drags the stored position of every button
\* that is down along with the mouse.
update_dragging(s, e) ==
    IF e.variant = "Raw.Move.MouseRelative"
    THEN [ s EXCEPT !.mouse_position = << e.arg[1], e.arg[2] >>,
                    !.mouse_buttons =
                        [ idx \in DOMAIN @ |->
                            IF @[idx] # None THEN Some(<< e.arg[1], e.arg[2] >>)
                            ELSE None ] ]
    ELSE match_event(s, e)

\* update in which an uncapture event clears a slot only when it carries the
\* slot's current holder.
update_holder_only(s, e) ==
    CASE e.variant = "WidgetUncapturesKeyboard" ->
           IF s.widget_capturing_keyboard = Some(e.arg)
           THEN [ s EXCEPT !.widget_capturing_keyboard = None ] ELSE s
      [] e.variant = "WidgetUncapturesMouse" ->
           IF s.widget_capturing_mouse = Some(e.arg)
           THEN [ s EXCEPT !.widget_capturing_mouse = None ] ELSE s
      [] OTHER -> match_event(s, e)

\* update in which the mouse uncapture arm clears the keyboard slot as well.
update_uncapture_both(s, e) ==
    IF e.variant = "WidgetUncapturesMouse"
    THEN [ s EXCEPT !.widget_capturing_mouse = None,
                    !.widget_capturing_keyboard = None ]
    ELSE match_event(s, e)

\* update in which a mouse move adds its coordinates to the mouse position.
update_accumulating(s, e) ==
    IF e.variant = "Raw.Move.MouseRelative"
    THEN [ s EXCEPT !.mouse_position = << @[1] + e.arg[1], @[2] + e.arg[2] >> ]
    ELSE match_event(s, e)

\* update in which an event without an arm of its own resets the state.
update_unknown_resets(s, e) ==
    IF e.variant \in MouseButtonVariants \cup KeyboardVariants \cup CaptureVariants
                         \cup { "Raw.Move.MouseRelative" }
    THEN match_event(s, e)
    ELSE InputState_new

\* update in which a mouse press leaves the pressed button as the only one down.
update_single_button(s, e) ==
    IF e.variant = "Raw.Press.Mouse"
    THEN [ s EXCEPT !.mouse_buttons =
               set(ButtonMap_new, e.arg, Some(s.mouse_position)) ]
    ELSE match_event(s, e)

\* update in which a key release toggles the modifier bit instead of removing it.
update_toggling(s, e) ==
    IF e.variant = "Raw.Release.Keyboard" /\ get_modifier(e.arg) # None
    THEN [ s EXCEPT !.modifiers =
               IF get_modifier(e.arg)[1] \in @
               THEN @ \ { get_modifier(e.arg)[1] }
               ELSE @ \cup { get_modifier(e.arg)[1] } ]
    ELSE match_event(s, e)

update(s, e) == match_event(s, e)

\* relative_to that translates the stored press positions as well.
relative_to_translating_all(s, xy) ==
    [ s EXCEPT !.mouse_position = vec2_sub(s.mouse_position, xy),
               !.mouse_buttons =
                   [ idx \in DOMAIN @ |->
                       IF @[idx] # None THEN Some(vec2_sub(@[idx][1], xy))
                       ELSE None ] ]

\* relative_to with the operands of the subtraction exchanged.
relative_to_reversed(s, xy) ==
    [ s EXCEPT !.mouse_position = vec2_sub(xy, s.mouse_position) ]

relative_to(s, xy) ==
    [ s EXCEPT !.mouse_position = vec2_sub(s.mouse_position, xy) ]

\* -------------------------------------------------------- state machine

VARIABLES
    state,      \* the InputState the toolkit owns
    prev,       \* the value of state when the most recent call was made
    last,       \* the most recent call: its operation and its argument
    ret,        \* what the most recent call returned
    derived,    \* the InputState a caller got from relative_to and kept, if any
    keys_down,  \* history: the physical keys pressed and not released since
    press_pos   \* history: per button, where the mouse was at the press that
                \* is the latest event naming the button (None: a release, or none)

vars == << state, prev, last, ret, derived, keys_down, press_pos >>

Call(op, arg) == [ op |-> op, arg |-> arg ]

Init ==
    /\ state = InputState_new
    /\ prev = InputState_new
    /\ last = Call("new", Unit)
    /\ ret = InputState_new
    /\ derived = None
    /\ keys_down = {}
    /\ press_pos = [ b \in MouseButton |-> None ]

\* The keys held after a keyboard event, by key identity.
keys_after(held, e) ==
    CASE e.variant = "Raw.Press.Keyboard" -> held \cup { e.arg }
      [] e.variant = "Raw.Release.Keyboard" -> held \ { e.arg }
      [] OTHER -> held

\* The press positions after a mouse button event, by button.
press_after(pp, position, e) ==
    CASE e.variant = "Raw.Press.Mouse" -> [ pp EXCEPT ![e.arg] = Some(position) ]
      [] e.variant = "Raw.Release.Mouse" -> [ pp EXCEPT ![e.arg] = None ]
      [] OTHER -> pp

\* state.update(&e)
Dispatch(e) ==
    /\ state' = update(state, e)
    /\ prev' = state
    /\ last' = Call("update", e)
    /\ ret' = Unit
    /\ derived' = derived
    /\ keys_down' = keys_after(keys_down, e)
    /\ press_pos' = press_after(press_pos, state.mouse_position, e)

MouseButtonPress(b) == Dispatch(Event("Raw.Press.Mouse", b))

MouseButtonRelease(b) == Dispatch(Event("Raw.Release.Mouse", b))

MouseMove(motion, x, y) == Dispatch(Event("Raw.Move." \o motion, << x, y >>))

KeyPress(key) == Dispatch(Event("Raw.Press.Keyboard", key))

KeyRelease(key) == Dispatch(Event("Raw.Release.Keyboard", key))

WidgetCapturesKeyboard(idx) == Dispatch(Event("WidgetCapturesKeyboard", idx))

WidgetUncapturesKeyboard(idx) == Dispatch(Event("WidgetUncapturesKeyboard", idx))

WidgetCapturesMouse(idx) == Dispatch(Event("WidgetCapturesMouse", idx))

WidgetUncapturesMouse(idx) == Dispatch(Event("WidgetUncapturesMouse", idx))

OtherEvent(variant) == Dispatch(Event(variant, Unit))

\* state = InputState::new(): a fresh state, with no history.
New ==
    /\ state' = InputState_new
    /\ prev' = state
    /\ last' = Call("new", Unit)
    /\ ret' = InputState_new
    /\ derived' = derived
    /\ keys_down' = {}
    /\ press_pos' = [ b \in MouseButton |-> None ]

\* state.mouse_buttons.set(b, point)
SetButton(b, point) ==
    /\ state' = [ state EXCEPT !.mouse_buttons = set(state.mouse_buttons, b, point) ]
    /\ prev' = state
    /\ last' = Call("set", << b, point >>)
    /\ ret' = Unit
    /\ UNCHANGED << derived, keys_down, press_pos >>

\* state.mouse_buttons.get(b)
GetButton(b) ==
    /\ state' = state
    /\ prev' = state
    /\ last' = Call("get", b)
    /\ ret' = get(state.mouse_buttons, b)
    /\ UNCHANGED << derived, keys_down, press_pos >>

\* state.mouse_buttons.take(b)
TakeButton(b) ==
    /\ state' = [ state EXCEPT !.mouse_buttons = take(state.mouse_buttons, b)[1] ]
    /\ prev' = state
    /\ last' = Call("take", b)
    /\ ret' = take(state.mouse_buttons, b)[2]
    /\ UNCHANGED << derived, keys_down, press_pos >>

\* state.mouse_buttons.pressed_button()
PressedButton ==
    /\ state' = state
    /\ prev' = state
    /\ last' = Call("pressed_button", Unit)
    /\ ret' = pressed_button(state.mouse_buttons)
    /\ UNCHANGED << derived, keys_down, press_pos >>

\* state.relative_to(xy)
RelativeTo(xy) ==
    /\ state' = state
    /\ prev' = state
    /\ last' = Call("relative_to", xy)
    /\ ret' = relative_to(state, xy)
    /\ UNCHANGED << derived, keys_down, press_pos >>

\* let derived = state.relative_to(xy): the caller keeps the returned value.
Derive(xy) ==
    /\ state' = state
    /\ prev' = state
    /\ last' = Call("relative_to", xy)
    /\ ret' = relative_to(state, xy)
    /\ derived' = Some(relative_to(state, xy))
    /\ UNCHANGED << keys_down, press_pos >>

\* derived.update(&e): the receiver is the caller's own value.
UpdateDerived(e) ==
    /\ derived # None
    /\ derived' = Some(update(derived[1], e))
    /\ state' = state
    /\ prev' = state
    /\ last' = Call("update_derived", e)
    /\ ret' = Unit
    /\ UNCHANGED << keys_down, press_pos >>

\* ------------------------------------------------------- specifications

\* The buttons the model's calls and events name; Right and X1 are the two
\* of the source's own test, Left lies below both.
Buttons == { "Left", "Right", "X1" }

\* Mouse button and mouse motion events alone.
NextMouse ==
    \/ \E b \in Buttons : MouseButtonPress(b)
    \/ \E b \in Buttons : MouseButtonRelease(b)
    \/ \E m \in Motions, x \in Coord, y \in Coord : MouseMove(m, x, y)

SpecMouse == Init /\ [][NextMouse]_vars

\* Keyboard events alone.
NextKeys ==
    \/ \E k \in Key : KeyPress(k)
    \/ \E k \in Key : KeyRelease(k)

SpecKeys == Init /\ [][NextKeys]_vars

\* Keyboard events as a keyboard produces them: a key goes down only when it
\* is up and comes up only when it is down.
NextPhysicalKeys ==
    \/ \E k \in Key \ keys_down : KeyPress(k)
    \/ \E k \in keys_down : KeyRelease(k)

SpecPhysicalKeys == Init /\ [][NextPhysicalKeys]_vars

\* The capture notifications, and the event kinds update has no arm for.
NextCapture ==
    \/ \E w \in Widgets : WidgetCapturesKeyboard(w)
    \/ \E w \in Widgets : WidgetUncapturesKeyboard(w)
    \/ \E w \in Widgets : WidgetCapturesMouse(w)
    \/ \E w \in Widgets : WidgetUncapturesMouse(w)
    \/ \E v \in OtherVariants : OtherEvent(v)

SpecCapture == Init /\ [][NextCapture]_vars

\* Direct calls on the button map.
NextMap ==
    \/ \E b \in Buttons, p \in Points : SetButton(b, Some(p))
    \/ \E b \in Buttons : SetButton(b, None)
    \/ \E b \in Buttons : GetButton(b)
    \/ \E b \in Buttons : TakeButton(b)
    \/ PressedButton

SpecMap == Init /\ [][NextMap]_vars

\* relative_to on the states a small alphabet of every event kind reaches.
NextRelative ==
    \/ MouseButtonPress("Left")
    \/ MouseButtonRelease("Left")
    \/ \E x \in Coord, y \in Coord : MouseMove("MouseRelative", x, y)
    \/ \E k \in { "LShift", "A" } : KeyPress(k)
    \/ \E k \in { "LShift", "A" } : KeyRelease(k)
    \/ WidgetCapturesKeyboard(1)
    \/ WidgetUncapturesKeyboard(1)
    \/ WidgetCapturesMouse(2)
    \/ WidgetUncapturesMouse(2)
    \/ \E xy \in Points : RelativeTo(xy)

SpecRelative == Init /\ [][NextRelative]_vars

\* update alone, over a small alphabet of every event kind: two buttons, the
\* move update has an arm for and the two it has none for, a modifier key and
\* a key that is none, a widget per capture slot, and the other event kinds.
NextEvents ==
    \/ \E b \in { "Left", "Right" } : MouseButtonPress(b)
    \/ \E b \in { "Left", "Right" } : MouseButtonRelease(b)
    \/ \E x \in Coord, y \in Coord : MouseMove("MouseRelative", x, y)
    \/ \E m \in Motions \ { "MouseRelative" } : MouseMove(m, 1, 1)
    \/ \E k \in { "LShift", "A" } : KeyPress(k)
    \/ \E k \in { "LShift", "A" } : KeyRelease(k)
    \/ WidgetCapturesKeyboard(1)
    \/ WidgetUncapturesKeyboard(1)
    \/ WidgetCapturesMouse(2)
    \/ WidgetUncapturesMouse(2)
    \/ \E v \in OtherVariants : OtherEvent(v)

SpecEvents == Init /\ [][NextEvents]_vars

\* One event or two of every field, for the source state and for a state
\* derived from it.
CopyEvents ==
    { Event("Raw.Press.Mouse", "Left"), Event("Raw.Release.Mouse", "Left"),
      Event("Raw.Move.MouseRelative", << 0, 0 >>),
      Event("Raw.Move.MouseRelative", << 1, 0 >>),
      Event("Raw.Press.Keyboard", "LShift"), Event("Raw.Release.Keyboard", "LShift"),
      Event("WidgetCapturesKeyboard", 1), Event("WidgetUncapturesKeyboard", 1),
      Event("WidgetCapturesMouse", 2), Event("WidgetUncapturesMouse", 2) }

\* A state, a state derived from it, and update on either.
NextCopies ==
    \/ \E e \in CopyEvents : Dispatch(e)
    \/ Derive(<< 1, 1 >>)
    \/ \E e \in CopyEvents : UpdateDerived(e)

SpecCopies == Init /\ [][NextCopies]_vars

\* Every operation on the one state the toolkit owns, over a small alphabet
\* (states derived from it are those of SpecCopies).
Next ==
    \/ MouseButtonPress("Left")
    \/ MouseButtonRelease("Left")
    \/ \E x \in Coord, y \in Coord : MouseMove("MouseRelative", x, y)
    \/ \E k \in { "LCtrl", "RCtrl", "A" } : KeyPress(k)
    \/ \E k \in { "LCtrl", "RCtrl", "A" } : KeyRelease(k)
    \/ \E w \in { 1, 2 } : WidgetCapturesKeyboard(w)
    \/ \E w \in { 1, 2 } : WidgetUncapturesKeyboard(w)
    \/ \E w \in { 1, 2 } : WidgetCapturesMouse(w)
    \/ \E w \in { 1, 2 } : WidgetUncapturesMouse(w)
    \/ OtherEvent("Raw.Resize")
    \/ New
    \/ SetButton("Left", None)
    \/ GetButton("Left")
    \/ TakeButton("Left")
    \/ PressedButton
    \/ RelativeTo(<< 1, 1 >>)

Spec == Init /\ [][Next]_vars

\* ------------------------------------------------------------- claims

\* What the most recent call was.
IsUpdate(variant) == last.op = "update" /\ last.arg.variant = variant

\* The most recent call was update with a mouse button event naming b.
NamesButton(b) ==
    /\ last.op = "update"
    /\ last.arg.variant \in MouseButtonVariants
    /\ last.arg.arg = b

\* The two physical keys of each modifier bit.
KeysOfBit ==
    [ bit \in ModifierBits |->
        CASE bit = CTRL -> { "LCtrl", "RCtrl" }
          [] bit = SHIFT -> { "LShift", "RShift" }
          [] bit = ALT -> { "LAlt", "RAlt" }
          [] bit = GUI -> { "LGui", "RGui" } ]

\* C1: when the latest event naming button b is a press made while the mouse
\* was at p, then whatever mouse moves and events not naming b came after it,
\* get(b) is Some(p): the position at press time, not the current one.
C1_PressPositionSurvivesMoves ==
    \A b \in MouseButton :
        press_pos[b] # None => get(state.mouse_buttons, b) = press_pos[b]

\* C1 witness: Left was pressed, the mouse has since moved elsewhere, another
\* button was pressed at another position, and Left still holds its own.
C1_Witness ==
    /\ IsUpdate("Raw.Move.MouseRelative")
    /\ press_pos["Left"] # None
    /\ press_pos["Right"] # None
    /\ press_pos["Left"] # press_pos["Right"]
    /\ state.mouse_position \notin { press_pos["Left"][1], press_pos["Right"][1] }
    /\ get(state.mouse_buttons, "Left") = press_pos["Left"]

\* C2: a button that is down stores the mouse position of the first press
\* since it was last up.  Event by event: a press of b while b is up stores the
\* current mouse position, a press of b while b is already down leaves the
\* stored position as it was, a release of b empties it, and no other event
\* touches it.
C2_FirstPressIsKept ==
    \A b \in MouseButton :
        last.op = "update" =>
            get(state.mouse_buttons, b) =
                IF NamesButton(b) /\ last.arg.variant = "Raw.Release.Mouse"
                THEN None
                ELSE IF NamesButton(b) /\ get(prev.mouse_buttons, b) = None
                THEN Some(prev.mouse_position)
                ELSE get(prev.mouse_buttons, b)

\* C3: each modifier bit is in modifiers exactly when at least one of its two
\* physical keys is held down.
C3_BitIffAKeyIsHeld ==
    \A bit \in ModifierBits :
        bit \in state.modifiers <=> KeysOfBit[bit] \cap keys_down # {}

\* C4: a press of either key of a modifier inserts its bit, a release of
\* either key removes it whichever key was pressed, and a press or release of
\* a key that is none of the eight leaves modifiers as it was.
C4_VariantsShareOneBit ==
    /\ \A bit \in ModifierBits :
           \A key \in KeysOfBit[bit] :
               /\ IsUpdate("Raw.Press.Keyboard") /\ last.arg.arg = key
                      => state.modifiers = prev.modifiers \cup { bit }
               /\ IsUpdate("Raw.Release.Keyboard") /\ last.arg.arg = key
                      => state.modifiers = prev.modifiers \ { bit }
    /\ ( /\ last.op = "update"
         /\ last.arg.variant \in KeyboardVariants
         /\ last.arg.arg \notin UNION { KeysOfBit[bit] : bit \in ModifierBits } )
           => state.modifiers = prev.modifiers

\* C4 witness: right Ctrl is released while left Ctrl, the key that set the
\* bit, is still held, and the Ctrl bit is gone.
C4_Witness ==
    /\ IsUpdate("Raw.Release.Keyboard")
    /\ last.arg.arg = "RCtrl"
    /\ "LCtrl" \in keys_down
    /\ CTRL \in prev.modifiers
    /\ CTRL \notin state.modifiers

\* C5: for either slot, a capture event carrying w leaves the slot Some(w) and
\* an uncapture event carrying any widget leaves it None, whatever the slot
\* held before.
C5_CaptureEventsOverwrite ==
    /\ IsUpdate("WidgetCapturesKeyboard")
           => state.widget_capturing_keyboard = Some(last.arg.arg)
    /\ IsUpdate("WidgetUncapturesKeyboard")
           => state.widget_capturing_keyboard = None
    /\ IsUpdate("WidgetCapturesMouse")
           => state.widget_capturing_mouse = Some(last.arg.arg)
    /\ IsUpdate("WidgetUncapturesMouse")
           => state.widget_capturing_mouse = None

\* C5 witness: the mouse slot is emptied by an uncapture event that carries a
\* widget other than its holder, while the keyboard slot was taken over from
\* its holder by another widget.
C5_Witness ==
    /\ IsUpdate("WidgetUncapturesMouse")
    /\ prev.widget_capturing_mouse # None
    /\ prev.widget_capturing_mouse # Some(last.arg.arg)
    /\ state.widget_capturing_mouse = None
    /\ state.widget_capturing_keyboard # None

\* C6: a capture slot that holds w keeps holding w until an uncapture event
\* for that slot carrying w itself is processed.
C6_HeldUntilHolderReleases ==
    /\ \A w \in Widgets :
           ( /\ last.op = "update"
             /\ prev.widget_capturing_keyboard = Some(w)
             /\ ~ (IsUpdate("WidgetUncapturesKeyboard") /\ last.arg.arg = w) )
               => state.widget_capturing_keyboard = Some(w)
    /\ \A w \in Widgets :
           ( /\ last.op = "update"
             /\ prev.widget_capturing_mouse = Some(w)
             /\ ~ (IsUpdate("WidgetUncapturesMouse") /\ last.arg.arg = w) )
               => state.widget_capturing_mouse = Some(w)

\* C6 as amended: a capture slot that holds w keeps holding w until the next
\* capture or uncapture event for that same slot, whichever widget it carries;
\* every other event, those of the other slot among them, leaves it with w.
C6_HeldUntilNextEventOfSlot ==
    /\ \A w \in Widgets :
           ( /\ last.op = "update"
             /\ prev.widget_capturing_keyboard = Some(w)
             /\ last.arg.variant \notin
                    { "WidgetCapturesKeyboard", "WidgetUncapturesKeyboard" } )
               => state.widget_capturing_keyboard = Some(w)
    /\ \A w \in Widgets :
           ( /\ last.op = "update"
             /\ prev.widget_capturing_mouse = Some(w)
             /\ last.arg.variant \notin
                    { "WidgetCapturesMouse", "WidgetUncapturesMouse" } )
               => state.widget_capturing_mouse = Some(w)

\* C6 witness: the keyboard slot holds a widget across a mouse uncapture
\* event that empties the mouse slot.
C6_Witness ==
    /\ IsUpdate("WidgetUncapturesMouse")
    /\ prev.widget_capturing_mouse # None
    /\ prev.widget_capturing_keyboard # None
    /\ prev.widget_capturing_keyboard # prev.widget_capturing_mouse
    /\ state.widget_capturing_keyboard = prev.widget_capturing_keyboard

\* The identity index of a button: its place in the enumeration, from 0.
IndexOf(b) == CHOOSE i \in 0 .. 8 : MouseButtonOrder[i + 1] = b

\* C7: pressed_button() is None exactly when every slot is None; otherwise it
\* is (b, p) with b the button of the lowest identity index among the buttons
\* that are down and p = get(b).
C7_LowestPressedButton ==
    last.op = "pressed_button" =>
        /\ ret = None <=> \A c \in MouseButton : get(state.mouse_buttons, c) = None
        /\ ret # None =>
               /\ ret[1][1] \in MouseButton
               /\ get(state.mouse_buttons, ret[1][1]) = Some(ret[1][2])
               /\ \A c \in MouseButton :
                      get(state.mouse_buttons, c) # None
                          => IndexOf(ret[1][1]) <= IndexOf(c)

\* C7 witness: Right and X1 are down at different positions, Left is up, and
\* pressed_button answers Right with Right's position.
C7_Witness ==
    /\ last.op = "pressed_button"
    /\ get(state.mouse_buttons, "Left") = None
    /\ get(state.mouse_buttons, "Right") # None
    /\ get(state.mouse_buttons, "X1") # None
    /\ get(state.mouse_buttons, "X1") # get(state.mouse_buttons, "Right")
    /\ ret = Some(<< "Right", get(state.mouse_buttons, "Right")[1] >>)

\* C8: take(b) returns what get(b) was before the call, leaves get(b) None and
\* leaves the slot of every other button as it was.
C8_TakeReadsAndClears ==
    last.op = "take" =>
        /\ ret = get(prev.mouse_buttons, last.arg)
        /\ get(state.mouse_buttons, last.arg) = None
        /\ \A c \in MouseButton \ { last.arg } :
               get(state.mouse_buttons, c) = get(prev.mouse_buttons, c)

\* C8 witness: a button that is down is taken while another button is down.
C8_Witness ==
    /\ last.op = "take"
    /\ ret # None
    /\ get(prev.mouse_buttons, last.arg) = ret
    /\ get(state.mouse_buttons, last.arg) = None
    /\ \E c \in MouseButton \ { last.arg } : get(state.mouse_buttons, c) # None

\* C9: after set(b, v), get(b) = v whatever the slot held, and get(c) is as it
\* was for every other button c; get changes nothing and answers the slot.
C9_SetIsPointUpdate ==
    /\ last.op = "set" =>
           /\ get(state.mouse_buttons, last.arg[1]) = last.arg[2]
           /\ \A c \in MouseButton \ { last.arg[1] } :
                  get(state.mouse_buttons, c) = get(prev.mouse_buttons, c)
    /\ last.op = "get" =>
           /\ state = prev
           /\ ret = state.mouse_buttons[IndexOf(last.arg)]

\* C9 witness: a button that is down at one position is set to another
\* position while another button is down.
C9_Witness ==
    /\ last.op = "set"
    /\ last.arg[2] # None
    /\ get(prev.mouse_buttons, last.arg[1]) # None
    /\ get(prev.mouse_buttons, last.arg[1]) # last.arg[2]
    /\ get(state.mouse_buttons, last.arg[1]) = last.arg[2]
    /\ \E c \in MouseButton \ { last.arg[1] } : get(state.mouse_buttons, c) # None

\* C10: relative_to(o) returns a state whose mouse_position is the source's
\* minus o, component by component, and whose mouse_buttons, capture slots and
\* modifiers are the source's; the source is as it was.
C10_RelativeToTranslatesPositionOnly ==
    last.op = "relative_to" =>
        /\ ret.mouse_position[1] = prev.mouse_position[1] - last.arg[1]
        /\ ret.mouse_position[2] = prev.mouse_position[2] - last.arg[2]
        /\ ret.mouse_buttons = prev.mouse_buttons
        /\ ret.widget_capturing_keyboard = prev.widget_capturing_keyboard
        /\ ret.widget_capturing_mouse = prev.widget_capturing_mouse
        /\ ret.modifiers = prev.modifiers
        /\ state = prev

\* C10 witness: relative_to with a nonzero origin on a state with a button
\* down away from the origin, both slots captured and a modifier held.
C10_Witness ==
    /\ last.op = "relative_to"
    /\ last.arg[1] # 0
    /\ last.arg[2] # 0
    /\ get(state.mouse_buttons, "Left") = Some(<< 1, 1 >>)
    /\ state.widget_capturing_keyboard # None
    /\ state.widget_capturing_mouse # None
    /\ state.modifiers # {}
    /\ ret.mouse_position # state.mouse_position
    /\ ret.mouse_buttons = state.mouse_buttons

\* C11: the mouse move event update has an arm for sets mouse_position to
\* exactly the coordinates it carries, whatever the position was before.
C11_MoveAssignsPosition ==
    IsUpdate("Raw.Move.MouseRelative") => state.mouse_position = last.arg.arg

\* C11 witness: a move away from a position other than the origin, to
\* coordinates that are neither that position nor its sum with it.
C11_Witness ==
    /\ IsUpdate("Raw.Move.MouseRelative")
    /\ prev.mouse_position # << 0, 0 >>
    /\ last.arg.arg # << 0, 0 >>
    /\ last.arg.arg # prev.mouse_position
    /\ state.mouse_position = last.arg.arg

\* A value with the five fields of InputState, each of its type.
IsOption(v) == Len(v) \in { 0, 1 }

IsPoint(v) == Len(v) = 2 /\ v[1] \in Int /\ v[2] \in Int

IsInputState(s) ==
    /\ DOMAIN s = { "mouse_buttons", "mouse_position", "widget_capturing_keyboard",
                    "widget_capturing_mouse", "modifiers" }
    /\ DOMAIN s.mouse_buttons = 0 .. 8
    /\ \A idx \in 0 .. 8 :
           /\ IsOption(s.mouse_buttons[idx])
           /\ s.mouse_buttons[idx] # None => IsPoint(s.mouse_buttons[idx][1])
    /\ IsPoint(s.mouse_position)
    /\ IsOption(s.widget_capturing_keyboard)
    /\ IsOption(s.widget_capturing_mouse)
    /\ s.modifiers \subseteq { CTRL, SHIFT, ALT, GUI }

\* The events that change nothing: those of a kind other than mouse button,
\* the mouse move, keyboard and the four capture notifications, and those of a
\* key that is none of the eight modifier keys.
IsIgnored(e) ==
    \/ e.variant \notin
           { "Raw.Press.Mouse", "Raw.Release.Mouse", "Raw.Move.MouseRelative",
             "Raw.Press.Keyboard", "Raw.Release.Keyboard",
             "WidgetCapturesKeyboard", "WidgetUncapturesKeyboard",
             "WidgetCapturesMouse", "WidgetUncapturesMouse" }
    \/ /\ e.variant \in { "Raw.Press.Keyboard", "Raw.Release.Keyboard" }
       /\ e.arg \notin UNION { KeysOfBit[bit] : bit \in ModifierBits }

\* C12: update yields an InputState for every state and event, and an event
\* of a kind it has no arm for, or of a key that is no modifier, leaves every
\* field as it was.
C12_UpdateTotalAndIgnoresTheRest ==
    last.op = "update" =>
        /\ IsInputState(state)
        /\ IsIgnored(last.arg) => state = prev

\* C12 witness: an event of another kind arrives in a state with a button
\* down, the mouse away from the origin, both slots held and a modifier set,
\* and the state is what it was.
C12_Witness ==
    /\ last.op = "update"
    /\ last.arg.variant \in OtherVariants
    /\ get(state.mouse_buttons, "Right") # None
    /\ state.mouse_position # << 0, 0 >>
    /\ state.widget_capturing_keyboard # None
    /\ state.widget_capturing_mouse # None
    /\ state.modifiers # {}
    /\ state = prev

\* C14: InputState::new() has the mouse at (0,0), no modifier bit, both
\* capture slots None, and a button map in which get(b) is None for every
\* button b and pressed_button() is None.
C14_NewIsEmpty ==
    last.op = "new" =>
        /\ ret = state
        /\ state.mouse_position = << 0, 0 >>
        /\ state.modifiers = {}
        /\ state.widget_capturing_keyboard = None
        /\ state.widget_capturing_mouse = None
        /\ \A b \in MouseButton : get(state.mouse_buttons, b) = None
        /\ pressed_button(state.mouse_buttons) = None

\* C14 witness: a fresh state takes the place of one that had a button down,
\* the mouse away from the origin, both slots held and a modifier set.
C14_Witness ==
    /\ last.op = "new"
    /\ get(prev.mouse_buttons, "Left") # None
    /\ prev.mouse_position # << 0, 0 >>
    /\ prev.modifiers # {}
    /\ prev.widget_capturing_keyboard # None
    /\ prev.widget_capturing_mouse # None
    /\ state.mouse_position = << 0, 0 >>

\* C15: under update events alone, get(b) is None exactly when no mouse
\* button event has named b or the latest one was a release; otherwise it is
\* Some(p), p the mouse position at the time of the latest press of b.
C15_SlotIsLatestPress ==
    \A b \in MouseButton : get(state.mouse_buttons, b) = press_pos[b]

\* C15 witness: Left, down since a press at one position, is pressed again
\* with the mouse at another and now stores that one, while Right was
\* released and X1 is down.
C15_Witness ==
    /\ IsUpdate("Raw.Press.Mouse")
    /\ last.arg.arg = "Left"
    /\ get(prev.mouse_buttons, "Left") # None
    /\ get(prev.mouse_buttons, "Left") # Some(prev.mouse_position)
    /\ get(state.mouse_buttons, "Left") = Some(prev.mouse_position)
    /\ get(state.mouse_buttons, "Right") = None
    /\ get(state.mouse_buttons, "X1") # None

\* The five components of InputState.
Components ==
    { "mouse_buttons", "mouse_position", "widget_capturing_keyboard",
      "widget_capturing_mouse", "modifiers" }

\* The most recent call left every component but this one as it was.
ChangedAtMost(component) ==
    \A c \in Components \ { component } : state[c] = prev[c]

\* C16: an update event changes at most one component: a mouse press or
\* release of b only b's slot, a mouse move only mouse_position, a key event
\* only modifiers, a keyboard capture or uncapture only
\* widget_capturing_keyboard, a mouse capture or uncapture only
\* widget_capturing_mouse.
C16_OneComponentPerEvent ==
    last.op = "update" =>
        /\ last.arg.variant \in { "Raw.Press.Mouse", "Raw.Release.Mouse" } =>
               /\ ChangedAtMost("mouse_buttons")
               /\ \A idx \in 0 .. 8 :
                      idx # IndexOf(last.arg.arg)
                          => state.mouse_buttons[idx] = prev.mouse_buttons[idx]
        /\ last.arg.variant \in { "Raw.Move." \o m : m \in Motions } =>
               ChangedAtMost("mouse_position")
        /\ last.arg.variant \in { "Raw.Press.Keyboard", "Raw.Release.Keyboard" } =>
               ChangedAtMost("modifiers")
        /\ last.arg.variant \in
               { "WidgetCapturesKeyboard", "WidgetUncapturesKeyboard" } =>
               ChangedAtMost("widget_capturing_keyboard")
        /\ last.arg.variant \in { "WidgetCapturesMouse", "WidgetUncapturesMouse" } =>
               ChangedAtMost("widget_capturing_mouse")

\* C16 witness: the mouse slot is emptied while the keyboard slot is held, a
\* button is down and a modifier is set, and only the mouse slot has changed.
C16_Witness ==
    /\ IsUpdate("WidgetUncapturesMouse")
    /\ prev.widget_capturing_mouse # None
    /\ state.widget_capturing_mouse = None
    /\ state.widget_capturing_keyboard # None
    /\ get(state.mouse_buttons, "Left") # None
    /\ get(state.mouse_buttons, "Right") # get(state.mouse_buttons, "Left")
    /\ state.modifiers # {}
    /\ ChangedAtMost("widget_capturing_mouse")

\* The release and uncapture events.
ReleaseEvents ==
    { Event("Raw.Release.Mouse", b) : b \in MouseButton }
        \cup { Event("Raw.Release.Keyboard", k) : k \in Key }
        \cup { Event("WidgetUncapturesKeyboard", w) : w \in Widgets }
        \cup { Event("WidgetUncapturesMouse", w) : w \in Widgets }

\* C17: a release of a mouse button that is up, a release of a key whose
\* modifier bit is clear (or that has none) and an uncapture event on an empty
\* slot leave the state as it was; and any release or uncapture event applied
\* twice in a row gives the state that applying it once gives.
C17_SpuriousReleasesHarmless ==
    /\ ( /\ IsUpdate("Raw.Release.Mouse")
         /\ prev.mouse_buttons[IndexOf(last.arg.arg)] = None ) => state = prev
    /\ ( /\ IsUpdate("Raw.Release.Keyboard")
         /\ \A bit \in prev.modifiers : last.arg.arg \notin KeysOfBit[bit] )
           => state = prev
    /\ ( /\ IsUpdate("WidgetUncapturesKeyboard")
         /\ prev.widget_capturing_keyboard = None ) => state = prev
    /\ ( /\ IsUpdate("WidgetUncapturesMouse")
         /\ prev.widget_capturing_mouse = None ) => state = prev
    /\ \A e \in ReleaseEvents : update(update(state, e), e) = update(state, e)

\* C17 witness: a modifier key is released while its bit is clear, in a state
\* with a button down and a slot held, and the state is what it was.
C17_Witness ==
    /\ IsUpdate("Raw.Release.Keyboard")
    /\ last.arg.arg = "LShift"
    /\ SHIFT \notin prev.modifiers
    /\ get(prev.mouse_buttons, "Left") # None
    /\ prev.widget_capturing_keyboard # None
    /\ state = prev

\* C18: over bounded integer coordinates, relative_to(a) followed by
\* relative_to(b) gives what relative_to(a + b) gives, and relative_to((0,0))
\* gives the state itself.
C18_RelativeToAddsOrigins ==
    last.op = "relative_to" =>
        /\ \A b \in Points :
               relative_to(ret, b) =
                   relative_to(state, << last.arg[1] + b[1], last.arg[2] + b[2] >>)
        /\ last.arg = << 0, 0 >> => ret = state

\* C18 witness: relative_to with a nonzero origin on a state with the mouse
\* away from the origin and a button down; a second nonzero origin moves the
\* result on by itself.
C18_Witness ==
    /\ last.op = "relative_to"
    /\ last.arg = << 1, 1 >>
    /\ state.mouse_position = << 0, 1 >>
    /\ get(state.mouse_buttons, "Left") # None
    /\ ret.mouse_position = << -1, 0 >>
    /\ relative_to(ret, << 1, 1 >>).mouse_position = << -2, -1 >>

====
